---- MODULE Spec2Model ----
(***************************************************************************)
(* Sentix: the /analyze endpoint (analyze_endpoint) and the core           *)
(* classifier (SentimentEngine.analyze) of app.py.                         *)
(*                                                                         *)
(* Strings are run-length encoded: a string is a sequence of runs          *)
(* [ch, n], n >= 1 copies of the character ch, so that strings of 15 000   *)
(* characters are ordinary values.  Floats are fixed-point integers in     *)
(* units of 1/Scale; round(x, 3) is rounding to a multiple of Scale/1000.  *)
(***************************************************************************)
EXTENDS Integers, Sequences, FiniteSets, TLC

\* ------------------------------------------------------------------ bounds
MaxRuns == 2

\* --------------------------------------------------------------- constants
Scale == 10000
PosThreshold == 1500
NegThreshold == -1500
DetectMinLen == 10
MaxChars == 15000
GaugeDegrees == 90
RoundUnit == 10

\* ----------------------------------------------------------------- strings
Chars == {" ", "a"}
RunLens == {1, 10, 11, 15000}
Runs == [ch : Chars, n : RunLens]
Texts == UNION {[1..k -> Runs] : k \in 0..MaxRuns}

IsSpace(c) == c = " "

RECURSIVE StrLen(_)
StrLen(s) == IF s = <<>> THEN 0 ELSE Head(s).n + StrLen(Tail(s))

RECURSIVE LStrip(_)
LStrip(s) ==
  IF s = <<>> THEN <<>>
  ELSE IF IsSpace(Head(s).ch) THEN LStrip(Tail(s)) ELSE s

RECURSIVE RStrip(_)
RStrip(s) ==
  IF s = <<>> THEN <<>>
  ELSE IF IsSpace(s[Len(s)].ch) THEN RStrip(SubSeq(s, 1, Len(s) - 1)) ELSE s

Strip(s) == RStrip(LStrip(s))

\* the characters of a (short) string, one by one
RECURSIVE Expand(_)
Expand(s) ==
  IF s = <<>> THEN <<>>
  ELSE [i \in 1..Head(s).n |-> Head(s).ch] \o Expand(Tail(s))

\* the dictionary key / the needle of the membership test: 'text'
TextKey == <<[ch |-> "t", n |-> 1], [ch |-> "e", n |-> 1],
             [ch |-> "x", n |-> 1], [ch |-> "t", n |-> 1]>>
OtherKey == <<[ch |-> "m", n |-> 1]>>

\* Python's  sub in s  on strings: substring test
IsSubstring(sub, s) ==
  LET e == Expand(s)
      u == Expand(sub)
  IN \E i \in 1..(Len(e) - Len(u) + 1) : SubSeq(e, i, i + Len(u) - 1) = u

\* ------------------------------------------------------------- JSON values
JNull == [kind |-> "null"]
JNum(v) == [kind |-> "num", v |-> v]
JStr(s) == [kind |-> "str", s |-> s]
JList(xs) == [kind |-> "list", items |-> xs]
JDict(ks, t) == [kind |-> "dict", keys |-> ks, text |-> t]

\* values the 'text' field can carry
TextValues ==
  {JStr(t) : t \in Texts} \cup {JNull, JNum(42), JList(<<>>), JList(<<OtherKey>>)}

\* parsed request bodies
JsonValues ==
  {JNull, JNum(0), JNum(42),
   JStr(<<>>), JStr(OtherKey), JStr(TextKey),
   JList(<<>>), JList(<<OtherKey>>), JList(<<TextKey>>),
   JDict({}, JNull), JDict({OtherKey}, JNull)}
  \cup {JDict({TextKey}, t) : t \in TextValues}
  \cup {JDict({TextKey, OtherKey}, JStr(t)) : t \in {<<>>, <<[ch |-> "a", n |-> 11]>>}}

\* what arrives at the endpoint: a JSON document, a body that is no parsable
\* JSON ("malformed": missing, empty, garbage), or a non-JSON content type
Bodies ==
  {[form |-> "json", value |-> v] : v \in JsonValues}
  \cup {[form |-> "malformed", value |-> JNull], [form |-> "nojson", value |-> JNull]}

\* -------------------------------------------------------------- exceptions
Exc(t, m) == [type |-> t, msg |-> m]
NoExc == Exc("", "")

\* failures of the external capabilities
ScorerFaults == {Exc("LookupError", "Resource punkt not found."),
                 Exc("MemoryError", "")}
DetectorFaults == {Exc("LangDetectException", "No features in text.")}
Languages == {"en", "es"}

\* values the scorer can return: polarity in [-1, 1], subjectivity in [0, 1]
Polarities == {-Scale, -1506, -1505, -1501, -1500, -1499, -4, 0, 4, 625,
               1499, 1500, 1501, 1504, 1505, Scale}
Subjectivities == {0, 3335, Scale}

VARIABLES pc, caller, body, data, user_text, text, polarity, subjectivity,
          is_english, exc, result, resp, analyzeCalls, scorerCalls, detectCalls

vars == <<pc, caller, body, data, user_text, text, polarity, subjectivity,
          is_english, exc, result, resp, analyzeCalls, scorerCalls, detectCalls>>

NoBody == [form |-> "none", value |-> JNull]
NoResult == [none |-> TRUE]
NoResp == [status |-> 0, body |-> NoResult]

Init ==
  /\ pc = "idle"
  /\ caller = "none"
  /\ body = NoBody
  /\ data = JNull
  /\ user_text = JNull
  /\ text = JNull
  /\ polarity = 0
  /\ subjectivity = 0
  /\ is_english = TRUE
  /\ exc = NoExc
  /\ result = NoResult
  /\ resp = NoResp
  /\ analyzeCalls = <<>>
  /\ scorerCalls = <<>>
  /\ detectCalls = <<>>

\* ------------------------------------------------------- Python semantics
\* bool(v)
Truthy(v) ==
  CASE v.kind = "null" -> FALSE
    [] v.kind = "num" -> v.v # 0
    [] v.kind = "str" -> v.s # <<>>
    [] v.kind = "list" -> v.items # <<>>
    [] v.kind = "dict" -> v.keys # {}

\* 'text' in v : [raises, value]
HasTextField(v) ==
  CASE v.kind = "dict" -> [raises |-> FALSE, value |-> TextKey \in v.keys]
    [] v.kind = "list" ->
         [raises |-> FALSE, value |-> \E i \in 1..Len(v.items) : v.items[i] = TextKey]
    [] v.kind = "str" -> [raises |-> FALSE, value |-> IsSubstring(TextKey, v.s)]
    [] OTHER -> [raises |-> TRUE, value |-> FALSE]

\* the TypeError of  'text' in v / v['text'] / len(v)  on a value without the operation
TypeErrorOf(op, v) == Exc("TypeError", op \o ":" \o v.kind)

\* v['text'] is defined on dictionaries only
CanSubscript(v) == v.kind = "dict"

\* len(v) is defined on strings and lists
HasLen(v) == v.kind \in {"str", "list"}
PyLen(v) == IF v.kind = "str" THEN StrLen(v.s) ELSE Len(v.items)

\* variant: the limit test written with >= instead of >
ExceedsLimitInclusive(v) == PyLen(v) >= MaxChars

\* len(user_text) > 15000
ExceedsLimit(v) == PyLen(v) > MaxChars

\* variant: only the empty string counts as blank
StripsToEmptyNoStrip(t) == t = <<>>

\* not text.strip()
StripsToEmpty(t) == Strip(t) = <<>>

\* variant: the gate measures the raw text instead of the trimmed text
ShouldDetectRaw(t) == StrLen(t) > DetectMinLen

\* len(text.strip()) > 10
ShouldDetect(t) == StrLen(Strip(t)) > DetectMinLen

\* variant: detect() is handed the trimmed text
DetectArgStripped(t) == Strip(t)

\* the argument handed to detect()
DetectArg(t) == t

\* is_english after detect() returned lang
IsEnglishAfter(lang) == IF lang # "en" THEN FALSE ELSE TRUE

\* round(x, 3): to the nearest multiple of RoundUnit, ties to even (Python's
\* round; on binary floats a decimal tie falls to whichever side the stored
\* value lies)
Round3(x) ==
  LET q == x \div RoundUnit
      r == x % RoundUnit
      n == IF 2 * r < RoundUnit THEN q
           ELSE IF 2 * r > RoundUnit THEN q + 1
           ELSE IF q % 2 = 0 THEN q ELSE q + 1
  IN n * RoundUnit

\* variant: the rotation is computed from the rounded score
RotationOfScore(p) == Round3(p) * GaugeDegrees

\* rotation_degrees = polarity * 90
Rotation(p) == p * GaugeDegrees

\* variant: the thresholds are inclusive
CategorizeInclusive(p) ==
  IF p >= PosThreshold THEN <<"Positive", "green">>
  ELSE IF p <= NegThreshold THEN <<"Negative", "red">>
  ELSE <<"Neutral", "gray">>

\* variant: the thresholds are applied to the rounded score
CategorizeRounded(p) ==
  IF Round3(p) > PosThreshold THEN <<"Positive", "green">>
  ELSE IF Round3(p) < NegThreshold THEN <<"Negative", "red">>
  ELSE <<"Neutral", "gray">>

\* the categorization: (category, color)
Categorize(p) ==
  IF p > PosThreshold THEN <<"Positive", "green">>
  ELSE IF p < NegThreshold THEN <<"Negative", "red">>
  ELSE <<"Neutral", "gray">>

\* the dictionary analyze returns on success
MakeResult(p, s, e) ==
  [score |-> Round3(p),
   subjectivity |-> Round3(s),
   category |-> Categorize(p)[1],
   color |-> Categorize(p)[2],
   rotation |-> Rotation(p),
   is_english |-> e]

EmptyError == [error |-> "Input text is empty or invalid."]
MissingFieldError == [error |-> "Missing 'text' field in request body"]
TooLargeError == [error |-> "Text exceeds maximum character limit (15,000)"]

\* the body of the 500 response for exception e
ErrorBody500(e) == [error |-> "Internal Server Error: " \o e.msg]

\* ------------------------------------------------------------ control flow
\* an exception leaves analyze / is caught by the endpoint's except clause
Raise(e) ==
  /\ exc' = e
  /\ pc' = IF caller = "endpoint" THEN "except" ELSE "done"

\* analyze returns r to its caller
Return(r) ==
  /\ result' = r
  /\ pc' = IF caller = "endpoint" THEN "jsonify" ELSE "done"

\* the endpoint returns a response
Reply(status, b) ==
  /\ resp' = [status |-> status, body |-> b]
  /\ pc' = "done"

\* ------------------------------------------------------------------ actions
\* a POST /analyze arrives
Request(b) ==
  /\ pc = "idle"
  /\ caller' = "endpoint"
  /\ body' = b
  /\ pc' = "get_json"
  /\ UNCHANGED <<data, user_text, text, polarity, subjectivity, is_english, exc,
                 result, resp, analyzeCalls, scorerCalls, detectCalls>>

\* SentimentEngine.analyze(t) called directly (as the test suite does)
DirectCall(t) ==
  /\ pc = "idle"
  /\ caller' = "direct"
  /\ text' = JStr(t)
  /\ analyzeCalls' = Append(analyzeCalls, JStr(t))
  /\ pc' = "validate"
  /\ UNCHANGED <<body, data, user_text, polarity, subjectivity, is_english, exc,
                 result, resp, scorerCalls, detectCalls>>

\* data = request.get_json()
GetJson ==
  /\ pc = "get_json"
  /\ \/ /\ body.form = "json"
        /\ data' = body.value
        /\ pc' = "check_field"
        /\ exc' = exc
     \/ /\ body.form = "malformed"
        /\ Raise(Exc("BadRequest", "400 Bad Request"))
        /\ data' = data
     \/ /\ body.form = "nojson"
        /\ \/ /\ data' = JNull
              /\ pc' = "check_field"
              /\ exc' = exc
           \/ /\ Raise(Exc("UnsupportedMediaType", "415 Unsupported Media Type"))
              /\ data' = data
  /\ UNCHANGED <<caller, body, user_text, text, polarity, subjectivity, is_english,
                 result, resp, analyzeCalls, scorerCalls, detectCalls>>

\* if not data or 'text' not in data: return ..., 400
CheckField ==
  /\ pc = "check_field"
  /\ IF ~Truthy(data)
       THEN Reply(400, MissingFieldError) /\ exc' = exc
       ELSE IF HasTextField(data).raises
         THEN Raise(TypeErrorOf("in", data)) /\ resp' = resp
         ELSE IF ~HasTextField(data).value
           THEN Reply(400, MissingFieldError) /\ exc' = exc
           ELSE pc' = "read_text" /\ exc' = exc /\ resp' = resp
  /\ UNCHANGED <<caller, body, data, user_text, text, polarity, subjectivity,
                 is_english, result, analyzeCalls, scorerCalls, detectCalls>>

\* user_text = data['text']
ReadText ==
  /\ pc = "read_text"
  /\ IF CanSubscript(data)
       THEN user_text' = data.text /\ pc' = "check_len" /\ exc' = exc
       ELSE Raise(TypeErrorOf("subscript", data)) /\ user_text' = user_text
  /\ UNCHANGED <<caller, body, data, text, polarity, subjectivity, is_english,
                 result, resp, analyzeCalls, scorerCalls, detectCalls>>

\* if len(user_text) > 15000: return ..., 413
CheckLength ==
  /\ pc = "check_len"
  /\ IF ~HasLen(user_text)
       THEN Raise(TypeErrorOf("len", user_text)) /\ resp' = resp
       ELSE IF ExceedsLimit(user_text)
         THEN Reply(413, TooLargeError) /\ exc' = exc
         ELSE pc' = "call_analyze" /\ exc' = exc /\ resp' = resp
  /\ UNCHANGED <<caller, body, data, user_text, text, polarity, subjectivity,
                 is_english, result, analyzeCalls, scorerCalls, detectCalls>>

\* result = SentimentEngine.analyze(user_text)
CallAnalyze ==
  /\ pc = "call_analyze"
  /\ text' = user_text
  /\ analyzeCalls' = Append(analyzeCalls, user_text)
  /\ pc' = "validate"
  /\ UNCHANGED <<caller, body, data, user_text, polarity, subjectivity, is_english,
                 exc, result, resp, scorerCalls, detectCalls>>

\* if not text or not text.strip(): return {"error": ...}
Validate ==
  /\ pc = "validate"
  /\ IF ~Truthy(text)
       THEN Return(EmptyError) /\ exc' = exc
       ELSE IF text.kind # "str"
         THEN Raise(Exc("AttributeError", "strip:" \o text.kind)) /\ result' = result
         ELSE IF StripsToEmpty(text.s)
           THEN Return(EmptyError) /\ exc' = exc
           ELSE pc' = "score" /\ exc' = exc /\ result' = result
  /\ UNCHANGED <<caller, body, data, user_text, text, polarity, subjectivity,
                 is_english, resp, analyzeCalls, scorerCalls, detectCalls>>

\* blob = TextBlob(text); polarity, subjectivity = blob.sentiment
ScoreOk(p, s) ==
  /\ pc = "score"
  /\ scorerCalls' = Append(scorerCalls, text.s)
  /\ polarity' = p
  /\ subjectivity' = s
  /\ is_english' = TRUE
  /\ pc' = "detect"
  /\ UNCHANGED <<caller, body, data, user_text, text, exc, result, resp,
                 analyzeCalls, detectCalls>>

\* the scorer fails: nothing in analyze catches it
ScoreFail(e) ==
  /\ pc = "score"
  /\ scorerCalls' = Append(scorerCalls, text.s)
  /\ Raise(e)
  /\ UNCHANGED <<caller, body, data, user_text, text, polarity, subjectivity,
                 is_english, result, resp, analyzeCalls, detectCalls>>

\* len(text.strip()) <= 10: detect is not called
DetectSkip ==
  /\ pc = "detect"
  /\ ~ShouldDetect(text.s)
  /\ pc' = "build"
  /\ UNCHANGED <<caller, body, data, user_text, text, polarity, subjectivity,
                 is_english, exc, result, resp, analyzeCalls, scorerCalls,
                 detectCalls>>

\* lang = detect(text); if lang != 'en': is_english = False
DetectOk(lang) ==
  /\ pc = "detect"
  /\ ShouldDetect(text.s)
  /\ detectCalls' = Append(detectCalls, [arg |-> DetectArg(text.s), out |-> lang])
  /\ is_english' = IsEnglishAfter(lang)
  /\ pc' = "build"
  /\ UNCHANGED <<caller, body, data, user_text, text, polarity, subjectivity, exc,
                 result, resp, analyzeCalls, scorerCalls>>

\* variant: the detector's exception is not caught inside analyze
DetectFailPropagates(e) ==
  /\ pc = "detect"
  /\ ShouldDetect(text.s)
  /\ detectCalls' = Append(detectCalls, [arg |-> DetectArg(text.s), out |-> "raise"])
  /\ Raise(e)
  /\ UNCHANGED <<caller, body, data, user_text, text, polarity, subjectivity,
                 is_english, result, resp, analyzeCalls, scorerCalls>>

\* detect raises: except Exception: pass
DetectFail(e) ==
  /\ pc = "detect"
  /\ ShouldDetect(text.s)
  /\ detectCalls' = Append(detectCalls, [arg |-> DetectArg(text.s), out |-> "raise"])
  /\ pc' = "build"
  /\ UNCHANGED <<caller, body, data, user_text, text, polarity, subjectivity,
                 is_english, exc, result, resp, analyzeCalls, scorerCalls>>

\* rotation, categorization, return {...}
Build ==
  /\ pc = "build"
  /\ Return(MakeResult(polarity, subjectivity, is_english))
  /\ UNCHANGED <<caller, body, data, user_text, text, polarity, subjectivity,
                 is_english, exc, resp, analyzeCalls, scorerCalls, detectCalls>>

\* return jsonify(result)
Respond ==
  /\ pc = "jsonify"
  /\ Reply(200, result)
  /\ UNCHANGED <<caller, body, data, user_text, text, polarity, subjectivity,
                 is_english, exc, result, analyzeCalls, scorerCalls, detectCalls>>

\* except Exception as e: return jsonify({"error": f"Internal Server Error: {str(e)}"}), 500
HandleException ==
  /\ pc = "except"
  /\ Reply(500, ErrorBody500(exc))
  /\ UNCHANGED <<caller, body, data, user_text, text, polarity, subjectivity,
                 is_english, exc, result, analyzeCalls, scorerCalls, detectCalls>>

Next ==
  \/ \E b \in Bodies : Request(b)
  \/ \E t \in Texts : DirectCall(t)
  \/ GetJson
  \/ CheckField
  \/ ReadText
  \/ CheckLength
  \/ CallAnalyze
  \/ Validate
  \/ \E p \in Polarities, s \in Subjectivities : ScoreOk(p, s)
  \/ \E e \in ScorerFaults : ScoreFail(e)
  \/ DetectSkip
  \/ \E lang \in Languages : DetectOk(lang)
  \/ \E e \in DetectorFaults : DetectFail(e)
  \/ Build
  \/ Respond
  \/ HandleException

Spec == Init /\ [][Next]_vars

\* ------------------------------------------------------------------ claims
\* analyze has returned an AnalysisResult
Analysed == pc \in {"jsonify", "done"} /\ "score" \in DOMAIN result

\* the text is empty or consists of whitespace only
IsBlankText(t) == \A i \in 1..Len(t) : t[i].ch = " "

\* analyze has been entered with a string argument
InAnalyze == analyzeCalls # <<>> /\ text.kind = "str"

\* C1: category and color follow the scorer's polarity p: (Positive, green) if
\* p > 0.15, (Negative, red) if p < -0.15, (Neutral, gray) otherwise, the two
\* thresholds themselves being Neutral; the endpoint returns that result.
C1_CategoryByPolarity ==
  Analysed =>
    /\ polarity > 1500 => result.category = "Positive" /\ result.color = "green"
    /\ polarity < -1500 => result.category = "Negative" /\ result.color = "red"
    /\ (polarity >= -1500 /\ polarity <= 1500) =>
         result.category = "Neutral" /\ result.color = "gray"
    /\ (caller = "endpoint" /\ pc = "done") => resp = [status |-> 200, body |-> result]

C1_Witness ==
  /\ Analysed
  /\ pc = "done"
  /\ polarity = 1500
  /\ result.category = "Neutral"
  /\ result.color = "gray"

\* C2: on an empty or whitespace-only text analyze returns exactly
\* {"error": "Input text is empty or invalid."}; neither the scorer nor the
\* detector is called and nothing is raised.
C2_BlankInputIsError ==
  (InAnalyze /\ IsBlankText(text.s)) =>
    /\ scorerCalls = <<>>
    /\ detectCalls = <<>>
    /\ exc = NoExc
    /\ pc \in {"validate", "jsonify", "done"}
    /\ pc # "validate" =>
         /\ result = [error |-> "Input text is empty or invalid."]
         /\ DOMAIN result = {"error"}

C2_Witness ==
  /\ InAnalyze
  /\ pc = "done"
  /\ text.s # <<>>
  /\ IsBlankText(text.s)
  /\ result = EmptyError

\* C3: when the trimmed text has at most 10 characters the detector is never
\* called, and an AnalysisResult has is_english = true.
C3_ShortTextSkipsDetector ==
  (InAnalyze /\ StrLen(Strip(text.s)) <= 10) =>
    /\ detectCalls = <<>>
    /\ Analysed => result.is_english = TRUE

C3_Witness ==
  /\ Analysed
  /\ pc = "done"
  /\ StrLen(Strip(text.s)) = 10
  /\ StrLen(text.s) > 10
  /\ detectCalls = <<>>
  /\ result.is_english = TRUE

\* C4: when the detector raises, analyze still returns the complete result,
\* with is_english = true and every other field as if the detector had
\* answered 'en'; nothing is raised and the endpoint answers 200.
C4_DetectorFailureAbsorbed ==
  (pc \in {"jsonify", "done"} /\ detectCalls # <<>> /\ detectCalls[1].out = "raise") =>
    /\ exc = NoExc
    /\ Analysed
    /\ result.is_english = TRUE
    /\ result = MakeResult(polarity, subjectivity, IsEnglishAfter("en"))
    /\ (caller = "endpoint" /\ pc = "done") => resp = [status |-> 200, body |-> result]

C4_Witness ==
  /\ pc = "done"
  /\ caller = "endpoint"
  /\ detectCalls # <<>>
  /\ detectCalls[1].out = "raise"
  /\ resp.status = 200
  /\ resp.body.is_english = TRUE
  /\ resp.body.category = "Negative"

\* C5: when the trimmed text has more than 10 characters (and the scorer has
\* returned), detect is called exactly once, with the raw untrimmed text; a
\* returned code other than 'en' gives is_english = false, 'en' gives true.
C5_LongTextDetectedOnce ==
  /\ Len(detectCalls) <= 1
  /\ (InAnalyze /\ StrLen(Strip(text.s)) > 10 /\ (pc = "build" \/ Analysed)) =>
       /\ Len(detectCalls) = 1
       /\ detectCalls[1].arg = text.s
       /\ (detectCalls[1].out \notin {"en", "raise"}) => is_english = FALSE
       /\ detectCalls[1].out = "en" => is_english = TRUE
       /\ Analysed => result.is_english = is_english

C5_Witness ==
  /\ Analysed
  /\ pc = "done"
  /\ StrLen(text.s) > StrLen(Strip(text.s))
  /\ detectCalls = <<[arg |-> text.s, out |-> "es"]>>
  /\ result.is_english = FALSE

\* C6: the rotation is 90 times the unrounded polarity: it is 0 iff the
\* polarity is 0, has the polarity's sign, and lies within [-90, 90].
C6_RotationLinear ==
  Analysed =>
    /\ result.rotation = polarity * 90
    /\ result.rotation = 0 <=> polarity = 0
    /\ result.rotation > 0 <=> polarity > 0
    /\ result.rotation < 0 <=> polarity < 0
    /\ result.rotation <= 90 * Scale
    /\ result.rotation >= -90 * Scale

C6_Witness ==
  /\ Analysed
  /\ pc = "done"
  /\ polarity = 4
  /\ result.score = 0
  /\ result.rotation = 360

\* the endpoint has decided the length test on a string
PastLengthCheck ==
  /\ caller = "endpoint"
  /\ user_text.kind = "str"
  /\ pc \notin {"idle", "get_json", "check_field", "read_text", "check_len"}

\* C7: a text of exactly 15000 characters is handed to the core, a text of
\* 15001 or more is answered 413 without the core being called, whitespace-only
\* or not.
C7_LengthLimit ==
  PastLengthCheck =>
    /\ StrLen(user_text.s) >= 15001 =>
         /\ pc = "done"
         /\ resp = [status |-> 413, body |-> TooLargeError]
         /\ analyzeCalls = <<>>
         /\ scorerCalls = <<>>
         /\ detectCalls = <<>>
    /\ StrLen(user_text.s) <= 15000 =>
         /\ resp.status # 413
         /\ pc # "call_analyze" => analyzeCalls = <<user_text>>

C7_Witness ==
  /\ PastLengthCheck
  /\ pc = "done"
  /\ StrLen(user_text.s) = 15000
  /\ analyzeCalls = <<user_text>>
  /\ resp.status = 200

\* the request carries no 'text' field: no parsable JSON, or a JSON value that
\* is not an object with the key 'text'
TextFieldAbsent ==
  \/ body.form # "json"
  \/ body.value.kind # "dict"
  \/ TextKey \notin body.value.keys

\* C8: every request without a text field is answered 400 and the core is
\* not called.
C8_MissingFieldIs400 ==
  (caller = "endpoint" /\ pc = "done" /\ TextFieldAbsent) =>
    /\ resp.status = 400
    /\ analyzeCalls = <<>>

\* C9: a fault of the scorer leaves analyze and reaches the endpoint, which
\* answers 500 with a body that is the same whatever the fault.
C9_GenericInternalError ==
  (caller = "endpoint" /\ pc = "done" /\ exc \in ScorerFaults) =>
    /\ resp.status = 500
    /\ \A e \in ScorerFaults : resp.body = ErrorBody500(e)

\* C10 as stated: the category is decided by the returned (rounded) score.
C10_CategoryByScore ==
  Analysed =>
    /\ result.category = "Positive" <=> result.score > 1500
    /\ result.category = "Negative" <=> result.score < -1500
    /\ result.category = "Neutral" <=> (result.score >= -1500 /\ result.score <= 1500)

\* C10 (amended): the category is decided by the unrounded polarity.  The
\* returned score decides it except at exactly 0.15 and -0.15: above 0.15
\* Positive, below -0.15 Negative, strictly between Neutral; at 0.15 Positive
\* iff the polarity exceeds 0.15, at -0.15 Negative iff the polarity is below
\* -0.15, and Neutral otherwise.
C10_CategoryByScoreAmended ==
  Analysed =>
    /\ result.score > 1500 => result.category = "Positive"
    /\ result.score < -1500 => result.category = "Negative"
    /\ (result.score > -1500 /\ result.score < 1500) => result.category = "Neutral"
    /\ result.score = 1500 =>
         result.category = (IF polarity > 1500 THEN "Positive" ELSE "Neutral")
    /\ result.score = -1500 =>
         result.category = (IF polarity < -1500 THEN "Negative" ELSE "Neutral")

C10_Witness ==
  /\ Analysed
  /\ pc = "done"
  /\ polarity = 1504
  /\ result.score = 1500
  /\ result.category = "Positive"
====
